---- MODULE Spec2Model ----
(***************************************************************************)
(* Model of programs/agent-poker/src/lib.rs: one poker Table account, its  *)
(* Seat accounts (one per agent), the escrow token account, and the seven  *)
(* instructions join_table, start_hand, player_action, deal_community,     *)
(* settle_hand, withdraw_rake and leave_table.  Every instruction is one   *)
(* atomic action (a Solana transaction either commits or is rolled back);  *)
(* a rejected instruction leaves the accounts alone and is visible only in *)
(* the history variable `last`.                                            *)
(***************************************************************************)
EXTENDS Integers, Sequences, FiniteSets

\* ---------------------------------------------------------------- bounds
\* join_table, start_hand and player_action are accepted until MaxSteps
\* instructions of these and leave_table have been accepted (current_hand and
\* the chips in play grow with them).
MaxSteps == 4

\* ------------------------------------------- create_table's configuration
small_blind == 1
big_blind == 2
min_buy_in == 20
max_buy_in == 200000
max_players == 2

\* pot / 100_000 in settle_hand
RAKE_DIVISOR == 100000

\* ---------------------------------------------------------------- inputs
AgentOrder == <<"a1", "a2", "a3">>
Agents == {AgentOrder[i] : i \in DOMAIN AgentOrder}
NoAgent == "none"
Callers == {"creator", "stranger"}
\* The owners of token accounts: the human behind each agent, and someone else.
Principals == Agents \cup {"stranger"}
BuyInAmounts == {min_buy_in - 1, 150000, max_buy_in + 1}
RaiseAmounts == {big_blind, 100000, 200000}
CardInputs == {<<14>>, <<11, 12, 13>>}
Positions == 0..(max_players - 1)

PokerActions == {"Fold", "Check", "Call", "Raise", "AllIn"}
HandStates == {"PreFlop", "Flop", "Turn", "River"}

\* The data of a Seat account that does not exist (closed or never created).
ZeroSeat == [stack |-> 0, position |-> 0, is_active |-> FALSE,
             is_folded |-> FALSE, current_bet |-> 0]

VARIABLES
    state,                 \* Table.state
    player_count,          \* Table.player_count
    current_hand,          \* Table.current_hand
    pot,                   \* Table.pot
    dealer_position,       \* Table.dealer_position
    current_turn,          \* Table.current_turn
    community_cards,       \* Table.community_cards, [u8; 5]
    community_card_count,  \* Table.community_card_count
    accumulated_rake,      \* Table.accumulated_rake
    seated,                \* the agents whose Seat account exists
    seats,                 \* agent -> Seat account data
    escrow,                \* token balance of the escrow account
    wallet,                \* token balance of each principal's token account
    contributed,           \* history: chips each seat moved out of its stack in the hand in progress
    rake_withdrawn,        \* history: the rake taken by accepted withdraw_rakes
    steps,                 \* history: the accepted join_table, start_hand, player_action, leave_table
    last                   \* history: the last instruction, its inputs and its result

table == <<state, player_count, current_hand, pot, dealer_position, current_turn,
           community_cards, community_card_count, accumulated_rake>>
accounts == <<table, seated, seats, escrow, wallet>>
history == <<contributed, rake_withdrawn, steps>>
vars == <<accounts, history, last>>

\* ---------------------------------------------------------------- helpers
RECURSIVE SumOver(_, _)
SumOver(f, S) ==
    IF S = {} THEN 0
    ELSE LET x == CHOOSE y \in S : TRUE IN f[x] + SumOver(f, S \ {x})

Joinable == state = "Waiting" \/ state = "BetweenHands"

\* The record of an instruction: its name, its inputs and its result.
Record(op, agent, action, arg, result) ==
    [op |-> op, agent |-> agent, action |-> action, arg |-> arg, result |-> result]

\* The program's error enum.
ErrorCode ==
    {"TableNotJoinable", "TableFull", "BuyInTooLow", "BuyInTooHigh", "NotEnoughPlayers",
     "HandInProgress", "PlayerNotActive", "NotYourTurn", "CannotCheck", "InsufficientStack",
     "RaiseTooSmall", "InvalidCardCount", "InvalidGameState", "HandNotComplete",
     "InvalidWinner", "CannotLeaveDuringHand", "NoRakeToWithdraw"}

\* `a - b` on u64 with b > a: a panic when overflow checks are compiled in,
\* otherwise a wrapped value near 2^64 that no stack of the model reaches,
\* so the following `require!(seat.stack >= ..)` rejects.
UnderflowOutcomes == {"ArithmeticPanic", "InsufficientStack"}

get_current_bet == big_blind

advance_turn == (current_turn + 1) % player_count

reset_bets_for_round(ss) == ss

count_active_players == 1

\* settle_rake with PROTOCOL_FEE_DIVISOR forgotten: one basis point of the pot.
settle_rake_one_bp(p) == p \div 10000

settle_rake(p) == p \div RAKE_DIVISOR

winner_amount(p) == p - settle_rake(p)

Init ==
    /\ state = "Waiting"
    /\ player_count = 0
    /\ current_hand = 0
    /\ pot = 0
    /\ dealer_position = 0
    /\ current_turn = 0
    /\ community_cards = <<0, 0, 0, 0, 0>>
    /\ community_card_count = 0
    /\ accumulated_rake = 0
    /\ seated = {}
    /\ seats = [a \in Agents |-> ZeroSeat]
    /\ escrow = 0
    /\ wallet = [p \in Principals |-> max_buy_in]
    /\ contributed = [a \in Agents |-> 0]
    /\ rake_withdrawn = 0
    /\ steps = 0
    /\ last = [op |-> "create_table", agent |-> NoAgent, action |-> "none", arg |-> 0,
               result |-> "Ok"]

\* ------------------------------------------------------------- join_table
\* table_has_room with the bound included.
table_has_room_inclusive == player_count <= max_players

table_has_room == player_count < max_players

join_table_result(a, buy_in_amount, deposit_ok) ==
    IF ~Joinable THEN "TableNotJoinable"
    ELSE IF ~table_has_room THEN "TableFull"
    ELSE IF ~(buy_in_amount >= min_buy_in) THEN "BuyInTooLow"
    ELSE IF ~(buy_in_amount <= max_buy_in) THEN "BuyInTooHigh"
    ELSE IF ~(deposit_ok /\ wallet[a] >= buy_in_amount) THEN "TransferFailed"
    ELSE "Ok"

join_table(a, buy_in_amount, deposit_ok) ==
    /\ a \notin seated        \* #[account(init)]: the Seat account must not exist yet
    /\ LET res == join_table_result(a, buy_in_amount, deposit_ok) IN
       /\ res = "Ok" => steps < MaxSteps
       /\ last' = Record("join_table", a, "none", buy_in_amount, res)
       /\ IF res = "Ok"
          THEN /\ escrow' = escrow + buy_in_amount
               /\ wallet' = [wallet EXCEPT ![a] = @ - buy_in_amount]
               /\ steps' = steps + 1
               /\ seats' = [seats EXCEPT ![a] =
                              [stack |-> buy_in_amount, position |-> player_count,
                               is_active |-> TRUE, is_folded |-> FALSE, current_bet |-> 0]]
               /\ seated' = seated \cup {a}
               /\ player_count' = player_count + 1
               /\ contributed' = [contributed EXCEPT ![a] = 0]
               /\ UNCHANGED <<state, current_hand, pot, dealer_position, current_turn,
                              community_cards, community_card_count, accumulated_rake,
                              rake_withdrawn>>
          ELSE UNCHANGED <<accounts, history>>

\* ------------------------------------------------------------- start_hand
start_hand_result ==
    IF ~(player_count >= 2) THEN "NotEnoughPlayers"
    ELSE IF ~Joinable THEN "HandInProgress"
    ELSE "Ok"

\* next_dealer_position without the wrap-around.
next_dealer_position_no_wrap == dealer_position + 1

next_dealer_position == (dealer_position + 1) % player_count

start_hand ==
    LET res == start_hand_result IN
    /\ res = "Ok" => steps < MaxSteps
    /\ last' = Record("start_hand", NoAgent, "none", 0, res)
    /\ IF res = "Ok"
       THEN /\ current_hand' = current_hand + 1
            /\ state' = "PreFlop"
            /\ pot' = 0
            /\ community_card_count' = 0
            /\ dealer_position' = next_dealer_position
            /\ contributed' = [a \in Agents |-> 0]
            /\ steps' = steps + 1
            /\ UNCHANGED <<player_count, current_turn, community_cards,
                           accumulated_rake, seated, seats, escrow, wallet, rake_withdrawn>>
       ELSE UNCHANGED <<accounts, history>>

\* ---------------------------------------------------------- player_action
call_amount(s) == get_current_bet - s.current_bet

raise_amount(s, amount) == amount - s.current_bet

\* sufficient_stack with the stack check left out.
sufficient_stack_unchecked(s, delta) == TRUE

sufficient_stack(s, delta) == s.stack >= delta

may_act(s) == s.is_active /\ ~s.is_folded

\* is_turn with the turn check left out.
is_turn_any(s) == TRUE

is_turn(s) == s.position = current_turn

\* The results the instruction can end with (more than one only where the
\* build decides: see UnderflowOutcomes).
player_action_outcomes(s, action, amount) ==
    IF ~may_act(s) THEN {"PlayerNotActive"}
    ELSE IF ~is_turn(s) THEN {"NotYourTurn"}
    ELSE CASE action = "Fold" -> {"Ok"}
           [] action = "Check" ->
                IF s.current_bet = get_current_bet THEN {"Ok"} ELSE {"CannotCheck"}
           [] action = "Call" ->
                IF call_amount(s) < 0 THEN UnderflowOutcomes
                ELSE IF sufficient_stack(s, call_amount(s)) THEN {"Ok"}
                ELSE {"InsufficientStack"}
           [] action = "Raise" ->
                IF ~(amount > get_current_bet) THEN {"RaiseTooSmall"}
                ELSE IF raise_amount(s, amount) < 0 THEN UnderflowOutcomes
                ELSE IF sufficient_stack(s, raise_amount(s, amount)) THEN {"Ok"}
                ELSE {"InsufficientStack"}
           [] action = "AllIn" -> {"Ok"}

\* pot_delta with a Raise adding the whole new bet instead of the difference.
pot_delta_whole_raise(s, action, amount) ==
    CASE action = "Call" -> call_amount(s)
      [] action = "Raise" -> amount
      [] action = "AllIn" -> s.stack
      [] OTHER -> 0

\* The chips an accepted action moves into the pot.
pot_delta(s, action, amount) ==
    CASE action = "Call" -> call_amount(s)
      [] action = "Raise" -> raise_amount(s, amount)
      [] action = "AllIn" -> s.stack
      [] OTHER -> 0

\* The acting seat after an accepted action.
seat_after(s, action, amount) ==
    CASE action = "Fold" -> [s EXCEPT !.is_folded = TRUE]
      [] action = "Check" -> s
      [] action = "Call" ->
           [s EXCEPT !.stack = s.stack - call_amount(s),
                     !.current_bet = s.current_bet + call_amount(s)]
      [] action = "Raise" ->
           [s EXCEPT !.stack = s.stack - raise_amount(s, amount),
                     !.current_bet = amount]
      [] action = "AllIn" ->
           [s EXCEPT !.stack = 0, !.current_bet = s.current_bet + s.stack]

player_action(a, action, amount) ==
    /\ a \in seated
    /\ \E res \in player_action_outcomes(seats[a], action, amount) :
         /\ res = "Ok" => steps < MaxSteps
         /\ last' = Record("player_action", a, action, amount, res)
         /\ IF res = "Ok"
            THEN /\ steps' = steps + 1
                 /\ seats' = [seats EXCEPT ![a] = seat_after(seats[a], action, amount)]
                 /\ pot' = pot + pot_delta(seats[a], action, amount)
                 /\ current_turn' = advance_turn
                 /\ contributed' = IF state \in HandStates
                                    THEN [contributed EXCEPT
                                            ![a] = @ + (seats[a].stack - seats'[a].stack)]
                                    ELSE contributed
                 /\ UNCHANGED <<state, player_count, current_hand, dealer_position,
                                community_cards, community_card_count, accumulated_rake,
                                seated, escrow, wallet, rake_withdrawn>>
            ELSE UNCHANGED <<accounts, history>>

\* --------------------------------------------------------- deal_community
deal_community_result(cards) ==
    CASE state = "PreFlop" -> IF Len(cards) = 3 THEN "Ok" ELSE "InvalidCardCount"
      [] state = "Flop" -> IF Len(cards) = 1 THEN "Ok" ELSE "InvalidCardCount"
      [] state = "Turn" -> IF Len(cards) = 1 THEN "Ok" ELSE "InvalidCardCount"
      [] OTHER -> "InvalidGameState"

dealt_cards(cards) ==
    CASE state = "PreFlop" ->
           [community_cards EXCEPT ![1] = cards[1], ![2] = cards[2], ![3] = cards[3]]
      [] state = "Flop" -> [community_cards EXCEPT ![4] = cards[1]]
      [] state = "Turn" -> [community_cards EXCEPT ![5] = cards[1]]

dealt_count ==
    CASE state = "PreFlop" -> 3 [] state = "Flop" -> 4 [] state = "Turn" -> 5

\* dealt_state with the last street leading to Showdown.
dealt_state_showdown ==
    CASE state = "PreFlop" -> "Flop" [] state = "Flop" -> "Turn" [] state = "Turn" -> "Showdown"

dealt_state ==
    CASE state = "PreFlop" -> "Flop" [] state = "Flop" -> "Turn" [] state = "Turn" -> "River"

deal_community(cards) ==
    LET res == deal_community_result(cards) IN
    /\ last' = Record("deal_community", NoAgent, "none", Len(cards), res)
    /\ IF res = "Ok"
       THEN /\ community_cards' = dealt_cards(cards)
            /\ community_card_count' = dealt_count
            /\ state' = dealt_state
            /\ seats' = reset_bets_for_round(seats)
            /\ UNCHANGED <<player_count, current_hand, pot, dealer_position, current_turn,
                           accumulated_rake, seated, escrow, wallet, history>>
       ELSE UNCHANGED <<accounts, history>>

\* ------------------------------------------------------------ settle_hand
hand_complete == state = "River" \/ count_active_players = 1

settle_hand_result(w, winner_position) ==
    IF ~hand_complete THEN "HandNotComplete"
    ELSE IF ~(seats[w].position = winner_position) THEN "InvalidWinner"
    ELSE "Ok"

settle_hand(w, winner_position) ==
    /\ w \in seated
    /\ LET res == settle_hand_result(w, winner_position) IN
       /\ last' = Record("settle_hand", w, "none", winner_position, res)
       /\ IF res = "Ok"
          THEN /\ accumulated_rake' = IF settle_rake(pot) > 0
                                      THEN accumulated_rake + settle_rake(pot)
                                      ELSE accumulated_rake
               /\ seats' = [seats EXCEPT ![w].stack = @ + winner_amount(pot)]
               /\ pot' = 0
               /\ state' = "BetweenHands"
               /\ contributed' = [a \in Agents |-> 0]
               /\ UNCHANGED <<player_count, current_hand, dealer_position, current_turn,
                              community_cards, community_card_count, seated, escrow,
                              wallet, rake_withdrawn, steps>>
          ELSE UNCHANGED <<accounts, history>>

\* ---------------------------------------------------------- withdraw_rake
withdraw_rake_result(caller) ==
    IF caller # "creator" THEN "ConstraintRaw"
    ELSE IF ~(accumulated_rake > 0) THEN "NoRakeToWithdraw"
    ELSE "Ok"

withdraw_rake(caller) ==
    LET res == withdraw_rake_result(caller) IN
    /\ last' = Record("withdraw_rake", NoAgent, caller, accumulated_rake, res)
    /\ IF res = "Ok"
       THEN /\ accumulated_rake' = 0
            /\ rake_withdrawn' = rake_withdrawn + accumulated_rake
            /\ UNCHANGED <<state, player_count, current_hand, pot, dealer_position,
                           current_turn, community_cards, community_card_count,
                           seated, seats, escrow, wallet, contributed, steps>>
       ELSE UNCHANGED <<accounts, history>>

\* ------------------------------------------------------------ leave_table
may_leave == state = "Waiting" \/ state = "BetweenHands"

leave_table_result(a, refund_ok) ==
    IF ~may_leave THEN "CannotLeaveDuringHand"
    ELSE IF ~(refund_ok /\ escrow >= seats[a].stack) THEN "TransferFailed"
    ELSE "Ok"

\* payee owns player_token_account, the account the refund is sent to: the
\* accounts of LeaveTable tie neither it, nor player, nor the signing agent to
\* the seat.
leave_table(a, payee, refund_ok) ==
    /\ a \in seated
    /\ LET res == leave_table_result(a, refund_ok) IN
       /\ last' = Record("leave_table", a, payee, 0, res)
       /\ IF res = "Ok"
          THEN /\ escrow' = escrow - seats[a].stack
               /\ wallet' = [wallet EXCEPT ![payee] = @ + seats[a].stack]
               /\ player_count' = player_count - 1
               /\ seats' = [seats EXCEPT ![a] = ZeroSeat]    \* close = player
               /\ seated' = seated \ {a}
               /\ contributed' = [contributed EXCEPT ![a] = 0]
               /\ steps' = steps + 1
               /\ UNCHANGED <<state, current_hand, pot, dealer_position, current_turn,
                              community_cards, community_card_count, accumulated_rake,
                              rake_withdrawn>>
          ELSE UNCHANGED <<accounts, history>>

\* -------------------------------------------------------------------- Next
\* Agents without a seat are interchangeable (their Seat data is ZeroSeat and
\* no instruction reads a key), so the joining agent is the first of them.
Joiners ==
    {AgentOrder[i] : i \in {j \in DOMAIN AgentOrder :
                               /\ AgentOrder[j] \notin seated
                               /\ \A k \in 1..(j - 1) : AgentOrder[k] \in seated}}
JoinTable == \E a \in Joiners, b \in BuyInAmounts, ok \in BOOLEAN : join_table(a, b, ok)
StartHand == start_hand
PlayerAction ==
    \E a \in Agents, action \in PokerActions :
        \E amount \in (IF action = "Raise" THEN RaiseAmounts ELSE {0}) :
            player_action(a, action, amount)
DealCommunity == \E cards \in CardInputs : deal_community(cards)
SettleHand == \E w \in Agents, p \in Positions : settle_hand(w, p)
WithdrawRake == \E c \in Callers : withdraw_rake(c)
LeaveTable == \E a \in Agents, ok \in BOOLEAN : \E payee \in {a, "stranger"} : leave_table(a, payee, ok)

Next ==
    \/ JoinTable
    \/ StartHand
    \/ PlayerAction
    \/ DealCommunity
    \/ SettleHand
    \/ WithdrawRake
    \/ LeaveTable

Spec == Init /\ [][Next]_vars

\* ------------------------------------------------------------------ claims
\* The step is instruction op, whatever its result.
Step(op) == last'.op = op

Accepted(op) == last.op = op /\ last.result = "Ok"

\* The seated seats that have not folded.
NonFolded == {b \in seated : ~seats[b].is_folded}

\* The highest current_bet posted by a seated, non-folded seat.
HighestBet ==
    LET bets == {seats[b].current_bet : b \in NonFolded}
    IN  IF bets = {} THEN 0 ELSE CHOOSE x \in bets : \A y \in bets : y <= x

\* The first position after `pos`, in cyclic order modulo n, held by a seated,
\* active, non-folded seat of ss; n when there is none.
NextToAct(ss, sd, pos, n) ==
    LET live(q) == \E b \in sd : ss[b].position = q /\ ss[b].is_active /\ ~ss[b].is_folded
        offs == {k \in 1..n : live((pos + k) % n)}
    IN  IF offs = {} THEN n
        ELSE (pos + (CHOOSE k \in offs : \A j \in offs : k <= j)) % n

\* C1: every accepted settle_hand on a table with pot P adds P div 100000 to
\* accumulated_rake, adds P minus that rake to the winner's stack (so payout
\* plus rake is P), sets pot to 0 and state to BetweenHands.
C1_SettlePaysPotMinusRake ==
    [][(Step("settle_hand") /\ last'.result = "Ok") =>
          LET w == last'.agent
              rake == pot \div 100000
              payout == pot - rake
          IN  /\ payout + rake = pot
              /\ accumulated_rake' = accumulated_rake + rake
              /\ seats'[w].stack = seats[w].stack + payout
              /\ pot' = 0
              /\ state' = "BetweenHands"]_vars

\* A pot of 250000 has been settled: rake 2, payout 249998 to a winner who was all in.
C1_Witness ==
    /\ Accepted("settle_hand")
    /\ accumulated_rake = 2
    /\ seats[last.agent].stack = 249998
    /\ pot = 0

C3_TurnGoesToNextLiveSeat ==
    [][(Step("player_action") /\ last'.result = "Ok") =>
          LET next == NextToAct(seats', seated', seats[last'.agent].position, player_count)
          IN  next < player_count =>
                /\ current_turn' = next
                /\ \A b \in seated' : seats'[b].position = current_turn'
                      => seats'[b].is_active /\ ~seats'[b].is_folded]_vars

\* C4: deal_community succeeds only PreFlop with 3 cards (Flop, count 3),
\* Flop with 1 card (Turn, count 4) and Turn with 1 card (River, count 5); in
\* any other state it fails InvalidGameState, with a wrong card count it fails
\* InvalidCardCount, and a failure changes neither state nor community cards.
C4_DealFollowsStreets ==
    [][Step("deal_community") =>
          LET n == last'.arg
              res == last'.result
          IN  /\ res = "Ok" <=>
                    \/ state = "PreFlop" /\ n = 3
                    \/ state \in {"Flop", "Turn"} /\ n = 1
              /\ res = "Ok" =>
                    \/ state = "PreFlop" /\ state' = "Flop" /\ community_card_count' = 3
                    \/ state = "Flop" /\ state' = "Turn" /\ community_card_count' = 4
                    \/ state = "Turn" /\ state' = "River" /\ community_card_count' = 5
              /\ state \notin {"PreFlop", "Flop", "Turn"} => res = "InvalidGameState"
              /\ (state \in {"PreFlop", "Flop", "Turn"} /\ res # "Ok") => res = "InvalidCardCount"
              /\ res # "Ok" => UNCHANGED <<state, community_cards, community_card_count>>]_vars

\* All five community cards have been dealt, street by street.
C4_Witness ==
    /\ Accepted("deal_community")
    /\ state = "River"
    /\ community_card_count = 5
    /\ community_cards = <<11, 12, 13, 14, 14>>

\* C5: during a hand the amount to match is the highest current_bet of a
\* non-folded seat: a Check is accepted only at that amount, a Raise only
\* above it, and an accepted Call leaves the caller's current_bet equal to it.
C5_MatchHighestBet ==
    [][(state \in HandStates /\ Step("player_action") /\ last'.result = "Ok") =>
          LET a == last'.agent IN
          /\ last'.action = "Check" => seats[a].current_bet = HighestBet
          /\ last'.action = "Raise" => last'.arg > HighestBet
          /\ last'.action = "Call" => seats'[a].current_bet = HighestBet]_vars

\* C6: after every accepted deal_community every seated player's current_bet
\* is 0, and after every accepted start_hand every seated player's current_bet
\* is 0 and is_folded is false.
C6_RoundResetsBets ==
    /\ Accepted("deal_community") => \A b \in seated : seats[b].current_bet = 0
    /\ Accepted("start_hand") =>
          \A b \in seated : seats[b].current_bet = 0 /\ ~seats[b].is_folded

\* C7: settle_hand is accepted only in state River or with exactly one
\* non-folded seat, otherwise it fails HandNotComplete; with a winner seat at
\* another position than winner_position it fails InvalidWinner; a failure
\* changes no account.
C7_SettleOnlyWhenComplete ==
    [][Step("settle_hand") =>
          LET eligible == state = "River" \/ Cardinality(NonFolded) = 1
              matches == seats[last'.agent].position = last'.arg
          IN  /\ ~eligible => last'.result = "HandNotComplete"
              /\ (eligible /\ ~matches) => last'.result = "InvalidWinner"
              /\ last'.result = "Ok" => eligible /\ matches
              /\ last'.result # "Ok" => UNCHANGED accounts]_vars

\* C8: no stack is ever negative; a Call or Raise by the seat to act whose
\* delta exceeds its stack fails InsufficientStack and changes no account; an
\* accepted AllIn moves the whole stack into the pot and leaves stack 0.
C8_StackNeverNegative ==
    /\ [](\A b \in Agents : seats[b].stack >= 0)
    /\ [][Step("player_action") =>
            LET a == last'.agent
                s == seats[a]
                toAct == s.is_active /\ ~s.is_folded /\ s.position = current_turn
                delta == IF last'.action = "Call" THEN big_blind - s.current_bet
                         ELSE last'.arg - s.current_bet
            IN  /\ (/\ toAct
                    /\ \/ last'.action = "Call"
                       \/ last'.action = "Raise" /\ last'.arg > big_blind
                    /\ delta > s.stack) =>
                      last'.result = "InsufficientStack" /\ UNCHANGED accounts
                /\ (last'.action = "AllIn" /\ last'.result = "Ok") =>
                      /\ seats'[a].stack = 0
                      /\ pot' = pot + s.stack
                      /\ seats'[a].current_bet = s.current_bet + s.stack]_vars

\* A Raise to 200000 by the seat to act, from a stack of 150000 with nothing
\* bet, was rejected.
C8_Witness ==
    /\ last.op = "player_action"
    /\ last.action = "Raise"
    /\ last.arg = 200000
    /\ last.result = "InsufficientStack"
    /\ seats[last.agent].stack = 150000
    /\ seats[last.agent].current_bet = 0
    /\ seats[last.agent].position = current_turn

\* C9: a player_action from an inactive or folded seat fails PlayerNotActive,
\* one from a seat whose position is not current_turn fails NotYourTurn, and
\* neither changes an account; an accepted one comes from the live seat whose
\* turn it is.
C9_OnlyTheSeatToAct ==
    [][Step("player_action") =>
          LET s == seats[last'.agent]
              live == s.is_active /\ ~s.is_folded
          IN  /\ ~live => last'.result = "PlayerNotActive" /\ UNCHANGED accounts
              /\ (live /\ s.position # current_turn) =>
                    last'.result = "NotYourTurn" /\ UNCHANGED accounts
              /\ last'.result = "Ok" => live /\ s.position = current_turn]_vars

\* A live seat was rejected for acting out of turn.
C9_Witness ==
    /\ last.op = "player_action"
    /\ last.result = "NotYourTurn"
    /\ ~seats[last.agent].is_folded
    /\ seats[last.agent].position # current_turn

\* C10: start_hand is accepted exactly when player_count >= 2 and the state
\* is Waiting or BetweenHands, otherwise it fails NotEnoughPlayers or
\* HandInProgress and changes no account; accepted, it adds 1 to current_hand,
\* zeroes pot and community_card_count, moves dealer_position to
\* (dealer_position + 1) mod player_count and sets the state to PreFlop.
C10_StartHand ==
    [][Step("start_hand") =>
          LET ready == player_count >= 2 /\ state \in {"Waiting", "BetweenHands"} IN
          /\ last'.result = "Ok" <=> ready
          /\ last'.result # "Ok" =>
                /\ last'.result \in {"NotEnoughPlayers", "HandInProgress"}
                /\ UNCHANGED accounts
          /\ last'.result = "Ok" =>
                /\ current_hand' = current_hand + 1
                /\ pot' = 0
                /\ community_card_count' = 0
                /\ dealer_position' = (dealer_position + 1) % player_count
                /\ state' = "PreFlop"]_vars

\* A second hand has been started from BetweenHands and the button has
\* wrapped around to seat 0.
C10_Witness ==
    /\ Accepted("start_hand")
    /\ current_hand = 2
    /\ dealer_position = 0
    /\ state = "PreFlop"

\* C11: join_table is accepted only in state Waiting or BetweenHands with
\* player_count < max_players and min_buy_in <= buy_in_amount <= max_buy_in,
\* failing in that order with TableNotJoinable, TableFull, BuyInTooLow and
\* BuyInTooHigh; a rejected join (a failed deposit included) creates no seat;
\* an accepted one creates the seat with stack buy_in_amount, position the old
\* player_count, is_active, not folded, current_bet 0, and adds 1 to
\* player_count, which never exceeds max_players.
C11_JoinTable ==
    /\ [](player_count <= max_players)
    /\ [][Step("join_table") =>
            LET a == last'.agent
                b == last'.arg
                res == last'.result
            IN  /\ res = "Ok" => /\ state \in {"Waiting", "BetweenHands"}
                                 /\ player_count < max_players
                                 /\ min_buy_in <= b /\ b <= max_buy_in
                /\ state \notin {"Waiting", "BetweenHands"} => res = "TableNotJoinable"
                /\ (state \in {"Waiting", "BetweenHands"} /\ player_count >= max_players)
                      => res = "TableFull"
                /\ (/\ state \in {"Waiting", "BetweenHands"}
                    /\ player_count < max_players) =>
                      /\ b < min_buy_in => res = "BuyInTooLow"
                      /\ b > max_buy_in => res = "BuyInTooHigh"
                /\ res # "Ok" => UNCHANGED accounts
                /\ res = "Ok" =>
                      /\ seats'[a] = [stack |-> b, position |-> player_count,
                                      is_active |-> TRUE, is_folded |-> FALSE,
                                      current_bet |-> 0]
                      /\ seated' = seated \cup {a}
                      /\ player_count' = player_count + 1]_vars

\* The last free seat has been taken: the table is full.
C11_Witness ==
    /\ Accepted("join_table")
    /\ player_count = max_players
    /\ seats[last.agent].position = max_players - 1
    /\ seats[last.agent].stack = 150000

\* C12: leave_table is accepted only in state Waiting or BetweenHands and
\* fails CannotLeaveDuringHand in PreFlop, Flop, Turn, River and Showdown, so
\* the seated set does not change during a hand; an accepted one refunds
\* exactly seat.stack from escrow to the principal who funded the seat,
\* destroys the seat and subtracts 1 from player_count; a rejected one (a
\* failed refund included) changes no account.
C12_LeaveTable ==
    [][/\ state \in HandStates => seated' = seated
       /\ Step("leave_table") =>
            LET a == last'.agent
                res == last'.result
            IN  /\ res = "Ok" => state \in {"Waiting", "BetweenHands"}
                /\ state \in HandStates \cup {"Showdown"} => res = "CannotLeaveDuringHand"
                /\ res # "Ok" => UNCHANGED accounts
                /\ res = "Ok" =>
                      /\ escrow' = escrow - seats[a].stack
                      /\ wallet' = [wallet EXCEPT ![a] = @ + seats[a].stack]
                      /\ seated' = seated \ {a}
                      /\ seats'[a] = ZeroSeat
                      /\ player_count' = player_count - 1]_vars

\* The error codes a caller can be handed: the program's own, the framework's
\* for a violated account constraint, and the token program's for a transfer.
TypedErrors == ErrorCode \cup {"ConstraintRaw", "TransferFailed"}

\* C13: every instruction either is accepted or is rejected with a typed
\* error, and a rejected instruction (a failed deposit or refund included)
\* leaves every table field, seat field and token balance as it was.
C13_AllOrNothing ==
    [][/\ last'.result \in TypedErrors \cup {"Ok"}
       /\ last'.result # "Ok" => UNCHANGED accounts]_vars

\* C14: in every betting state (PreFlop, Flop, Turn, River) current_turn is
\* below player_count and is the position of a seated, active, non-folded seat.
C14_TurnOnLiveSeat ==
    state \in HandStates =>
        /\ current_turn < player_count
        /\ \E b \in seated : /\ seats[b].position = current_turn
                              /\ seats[b].is_active
                              /\ ~seats[b].is_folded

\* C15: the table state changes only from Waiting or BetweenHands to PreFlop
\* (start_hand), from PreFlop to Flop, Flop to Turn, Turn to River
\* (deal_community), or from a hand state to BetweenHands (settle_hand); so
\* the state is Waiting exactly while current_hand = 0.
C15_Lifecycle ==
    /\ [](state = "Waiting" <=> current_hand = 0)
    /\ [][state' # state =>
            \/ /\ state \in {"Waiting", "BetweenHands"} /\ state' = "PreFlop"
               /\ Step("start_hand")
            \/ /\ <<state, state'>> \in {<<"PreFlop", "Flop">>, <<"Flop", "Turn">>,
                                          <<"Turn", "River">>}
               /\ Step("deal_community")
            \/ /\ state \in HandStates /\ state' = "BetweenHands"
               /\ Step("settle_hand")]_vars

\* C16: withdraw_rake is accepted only from the table's creator with
\* accumulated_rake > 0 and fails NoRakeToWithdraw, changing nothing, when it
\* is 0; an accepted one transfers exactly accumulated_rake out of the escrow
\* and zeroes it, changing no other table or seat field; no instruction but
\* settle_hand (which only adds) and withdraw_rake changes accumulated_rake.
C16_WithdrawRake ==
    [][/\ Step("withdraw_rake") =>
            LET res == last'.result IN
            /\ res = "Ok" => last'.action = "creator" /\ accumulated_rake > 0
            /\ (last'.action = "creator" /\ accumulated_rake = 0) =>
                  res = "NoRakeToWithdraw"
            /\ res # "Ok" => UNCHANGED accounts
            /\ res = "Ok" =>
                  /\ escrow' = escrow - accumulated_rake
                  /\ accumulated_rake' = 0
                  /\ UNCHANGED <<state, player_count, current_hand, pot, dealer_position,
                                 current_turn, community_cards, community_card_count,
                                 seated, seats>>
       /\ accumulated_rake' # accumulated_rake =>
            \/ Step("withdraw_rake")
            \/ Step("settle_hand") /\ accumulated_rake' > accumulated_rake]_vars

\* The chips on the table: the stacks of the seated players.
Stacks == [b \in Agents |-> IF b \in seated THEN seats[b].stack ELSE 0]

\* C17: in every reachable state the stacks of the seated players, the pot
\* and accumulated_rake add up to the buy-ins deposited minus the refunds paid
\* (the escrow balance, which join_table and leave_table alone change, by
\* exactly those amounts) minus the rake withdrawn.
C17_ChipsConserved ==
    SumOver(Stacks, Agents) + pot + accumulated_rake = escrow - rake_withdrawn

\* C18: the seated seats have pairwise distinct positions, each below
\* player_count.
C18_DistinctPositions ==
    /\ \A b \in seated : seats[b].position < player_count
    /\ \A b \in seated : \A c \in seated \ {b} : seats[b].position # seats[c].position

\* C19: player_action is accepted only in a hand state: in state Waiting or
\* BetweenHands it changes no seat, nor the pot, nor current_turn, so the pot
\* is 0 whenever the state is Waiting or BetweenHands.
C19_ActionOnlyInHand ==
    /\ [](state \in {"Waiting", "BetweenHands"} => pot = 0)
    /\ [][(Step("player_action") /\ state \in {"Waiting", "BetweenHands"}) =>
            /\ last'.result # "Ok"
            /\ UNCHANGED <<seats, pot, current_turn>>]_vars

\* C20: an accepted settle_hand that pays out a pot pays a winner seat that
\* is active and has not folded.
C20_WinnerNotFolded ==
    [][(Step("settle_hand") /\ last'.result = "Ok" /\ pot > 0) =>
          /\ seats[last'.agent].is_active
          /\ ~seats[last'.agent].is_folded]_vars
====
